---- MODULE Spec2Model ----
(***************************************************************************)
(* A model of the mariadb-mcp query admission and execution pipeline:      *)
(*   - validators.ts  (isAlloowedQuery and its tables, the compatibility   *)
(*     scan, validateQuery), found in src/mariadb-10.0.38-example.env      *)
(*     from line 29 on;                                                    *)
(*   - connection.ts  (pool / connection globals, createConnectionPool,    *)
(*     executeQuery, convertBigIntToString, getConfigFromEnv).             *)
(* Query texts are sequences of one-character strings, so that the         *)
(* normalisation (comment stripping, whitespace collapsing, trimming,      *)
(* upper-casing) and the regular-expression tests are computed as the      *)
(* code computes them.                                                     *)
(***************************************************************************)
EXTENDS Integers, Sequences, FiniteSets, TLC

VARIABLES
    env,          \* process.env: the variables the code reads
    input,        \* the value handed to validateQuery (admission runs)
    query,        \* the text handed to isAlloowedQuery (admission runs)
    verdict,      \* what the last isAlloowedQuery call computed
    validated,    \* what the last validateQuery call did
    rawRows,      \* the rows the driver hands back (normalisation runs)
    returned,     \* what executeQuery returns for rawRows
    pool,         \* connection.ts:16, the module's pool: "null" or "live"
    setup,        \* how many times mariadb.createPool has run, and what the
                  \* last createConnectionPool call did
    connection,   \* connection.ts:17, the module's connection: null or a session
    sess,         \* the pool's sessions: checked out or idle, each one's active
                  \* database and the statements it has still to answer
    poolQueue,    \* the getConnection requests the pool has not answered yet
    inv,          \* the executeQuery invocations, one per slot
    calls         \* how many executeQuery and createConnectionPool calls
                  \* have started

(***************************************************************************)
(* process.env values: a variable is either unset or holds a string (a     *)
(* sequence of characters, like every text of the model).                  *)
(***************************************************************************)
undefined == [defined |-> FALSE, value |-> <<>>]
Str(s) == [defined |-> TRUE, value |-> s]

(***************************************************************************)
(* Strings as character sequences.                                         *)
(***************************************************************************)
UpperOf ==
    [a |-> "A", b |-> "B", c |-> "C", d |-> "D", e |-> "E", f |-> "F",
     g |-> "G", h |-> "H", i |-> "I", j |-> "J", k |-> "K", l |-> "L",
     m |-> "M", n |-> "N", o |-> "O", p |-> "P", q |-> "Q", r |-> "R",
     s |-> "S", t |-> "T", u |-> "U", v |-> "V", w |-> "W", x |-> "X",
     y |-> "Y", z |-> "Z"]

\* String.prototype.toUpperCase, one character
toUpperCaseChar(ch) == IF ch \in DOMAIN UpperOf THEN UpperOf[ch] ELSE ch

\* String.prototype.toUpperCase
toUpperCase(str) == [idx \in 1..Len(str) |-> toUpperCaseChar(str[idx])]

\* the regular-expression class \s
IsSpace(ch) == ch \in {" ", "\t", "\n", "\r", "\f"}

\* what the regular-expression "." does not match, and "$" (flag m) stops at
IsLineTerminator(ch) == ch \in {"\n", "\r"}

\* String.prototype.startsWith
startsWith(str, prefix) ==
    /\ Len(prefix) <= Len(str)
    /\ SubSeq(str, 1, Len(prefix)) = prefix

\* String.prototype.endsWith
endsWith(str, suffix) ==
    /\ Len(suffix) <= Len(str)
    /\ SubSeq(str, Len(str) - Len(suffix) + 1, Len(str)) = suffix

\* String.prototype.includes
includes(str, part) ==
    \E idx \in 1..(Len(str) - Len(part) + 1) :
        SubSeq(str, idx, idx + Len(part) - 1) = part

\* the rest of str from its first line terminator on (all of "--.*$" dropped)
RECURSIVE FromLineEnd(_)
FromLineEnd(str) ==
    IF str = <<>> \/ IsLineTerminator(Head(str)) THEN str
    ELSE FromLineEnd(Tail(str))

\* .replace(/--.*$/gm, "")
RECURSIVE RemoveLineComments(_)
RemoveLineComments(str) ==
    IF str = <<>> THEN <<>>
    ELSE IF startsWith(str, <<"-", "-">>) THEN RemoveLineComments(FromLineEnd(str))
    ELSE <<Head(str)>> \o RemoveLineComments(Tail(str))

\* the rest of str after its first "*/" (str itself follows an opening "/*")
RECURSIVE AfterBlockEnd(_)
AfterBlockEnd(str) ==
    IF startsWith(str, <<"*", "/">>) THEN SubSeq(str, 3, Len(str))
    ELSE AfterBlockEnd(Tail(str))

\* .replace(/\/\*[\s\S]*?\*\//g, "")
RECURSIVE RemoveBlockComments(_)
RemoveBlockComments(str) ==
    IF str = <<>> THEN <<>>
    ELSE IF /\ startsWith(str, <<"/", "*">>)
            /\ includes(SubSeq(str, 3, Len(str)), <<"*", "/">>)
         THEN RemoveBlockComments(AfterBlockEnd(SubSeq(str, 3, Len(str))))
    ELSE <<Head(str)>> \o RemoveBlockComments(Tail(str))

\* str without its leading whitespace
RECURSIVE SkipSpaces(_)
SkipSpaces(str) ==
    IF str # <<>> /\ IsSpace(Head(str)) THEN SkipSpaces(Tail(str)) ELSE str

\* .replace(/\s+/g, " ")
RECURSIVE CollapseWhitespace(_)
CollapseWhitespace(str) ==
    IF str = <<>> THEN <<>>
    ELSE IF IsSpace(Head(str)) THEN <<" ">> \o CollapseWhitespace(SkipSpaces(str))
    ELSE <<Head(str)>> \o CollapseWhitespace(Tail(str))

\* str without its trailing whitespace
RECURSIVE DropTrailingSpaces(_)
DropTrailingSpaces(str) ==
    IF str # <<>> /\ IsSpace(str[Len(str)])
    THEN DropTrailingSpaces(SubSeq(str, 1, Len(str) - 1))
    ELSE str

\* String.prototype.trim
trim(str) == DropTrailingSpaces(SkipSpaces(str))

\* new RegExp(`(^|\\s)${cmd}(\\s|$)`).test(str)
TestStandalone(cmd, str) ==
    \E idx \in 1..(Len(str) - Len(cmd) + 1) :
        /\ SubSeq(str, idx, idx + Len(cmd) - 1) = cmd
        /\ (idx = 1 \/ IsSpace(str[idx - 1]))
        /\ (idx + Len(cmd) - 1 = Len(str) \/ IsSpace(str[idx + Len(cmd)]))

(***************************************************************************)
(* validators.ts: the command tables.                                      *)
(***************************************************************************)
SELECT == <<"S", "E", "L", "E", "C", "T">>
SHOW == <<"S", "H", "O", "W">>
DESCRIBE == <<"D", "E", "S", "C", "R", "I", "B", "E">>
DESC == <<"D", "E", "S", "C">>
EXPLAIN == <<"E", "X", "P", "L", "A", "I", "N">>
INSERT == <<"I", "N", "S", "E", "R", "T">>
UPDATE == <<"U", "P", "D", "A", "T", "E">>
DELETE == <<"D", "E", "L", "E", "T", "E">>
DROP == <<"D", "R", "O", "P">>
CREATE == <<"C", "R", "E", "A", "T", "E">>
ALTER == <<"A", "L", "T", "E", "R">>
TRUNCATE == <<"T", "R", "U", "N", "C", "A", "T", "E">>
RENAME == <<"R", "E", "N", "A", "M", "E">>
REPLACE == <<"R", "E", "P", "L", "A", "C", "E">>
GRANT == <<"G", "R", "A", "N", "T">>
REVOKE == <<"R", "E", "V", "O", "K", "E">>
LOCK == <<"L", "O", "C", "K">>
UNLOCK == <<"U", "N", "L", "O", "C", "K">>
CALL == <<"C", "A", "L", "L">>
EXEC == <<"E", "X", "E", "C">>
EXECUTE == <<"E", "X", "E", "C", "U", "T", "E">>
START == <<"S", "T", "A", "R", "T">>
BEGIN == <<"B", "E", "G", "I", "N">>
COMMIT == <<"C", "O", "M", "M", "I", "T">>
ROLLBACK == <<"R", "O", "L", "L", "B", "A", "C", "K">>

BASE_ALLOWED_COMMANDS == <<SELECT, SHOW, DESCRIBE, DESC, EXPLAIN>>

CONDITIONAL_COMMANDS == [INSERT |-> INSERT, UPDATE |-> UPDATE, DELETE |-> DELETE]

DISALLOWED_COMMANDS ==
    <<DROP, CREATE, ALTER, TRUNCATE, RENAME, REPLACE, GRANT, REVOKE, LOCK,
      UNLOCK, CALL, EXEC, EXECUTE, START, BEGIN, COMMIT, ROLLBACK>>

(***************************************************************************)
(* validators.ts: the compatibility scan.  A pattern of the feature table  *)
(* is the sequence of its parts: a literal text, "\s*" or ".*"; source is  *)
(* the text of the table entry, which the warning quotes.                  *)
(***************************************************************************)
Lit(text) == [part |-> "literal", text |-> text]
Spaces == [part |-> "\\s*", text |-> <<>>]
AnyChars == [part |-> ".*", text |-> <<>>]

\* the table entries "NAME\\s*\\(": the name, any whitespace, a parenthesis
CallOf(name) == <<Lit(name), Spaces, Lit(<<"(">>)>>

JSON_EXTRACT == <<"J", "S", "O", "N", "_", "E", "X", "T", "R", "A", "C", "T">>
JSON_UNQUOTE == <<"J", "S", "O", "N", "_", "U", "N", "Q", "U", "O", "T", "E">>
JSON_OBJECT == <<"J", "S", "O", "N", "_", "O", "B", "J", "E", "C", "T">>
JSON_ARRAY == <<"J", "S", "O", "N", "_", "A", "R", "R", "A", "Y">>
JSON_VALID == <<"J", "S", "O", "N", "_", "V", "A", "L", "I", "D">>
JSON_TYPE == <<"J", "S", "O", "N", "_", "T", "Y", "P", "E">>
JSON_COMPACT == <<"J", "S", "O", "N", "_", "C", "O", "M", "P", "A", "C", "T">>
JSON_LOOSE == <<"J", "S", "O", "N", "_", "L", "O", "O", "S", "E">>
JSON_DETAILED == <<"J", "S", "O", "N", "_", "D", "E", "T", "A", "I", "L", "E", "D">>
MATCH == <<"M", "A", "T", "C", "H">>
AGAINST == <<"A", "G", "A", "I", "N", "S", "T">>
IN_NATURAL_LANGUAGE_MODE_WITH_QUERY_EXPANSION ==
    <<"I", "N", " ", "N", "A", "T", "U", "R", "A", "L", " ", "L", "A", "N", "G", "U",
      "A", "G", "E", " ", "M", "O", "D", "E", " ", "W", "I", "T", "H", " ", "Q", "U",
      "E", "R", "Y", " ", "E", "X", "P", "A", "N", "S", "I", "O", "N">>
WINDOW_FUNCTION ==
    <<"W", "I", "N", "D", "O", "W", " ", "F", "U", "N", "C", "T", "I", "O", "N">>
OVER == <<"O", "V", "E", "R">>
ROW_NUMBER == <<"R", "O", "W", "_", "N", "U", "M", "B", "E", "R">>
RANK == <<"R", "A", "N", "K">>
DENSE_RANK == <<"D", "E", "N", "S", "E", "_", "R", "A", "N", "K">>
PARTITION_BY == <<"P", "A", "R", "T", "I", "T", "I", "O", "N", " ", "B", "Y">>

MARIADB_10_0_UNSUPPORTED_FEATURES ==
    <<[source |-> "JSON_EXTRACT", pattern |-> <<Lit(JSON_EXTRACT)>>],
      [source |-> "JSON_UNQUOTE", pattern |-> <<Lit(JSON_UNQUOTE)>>],
      [source |-> "JSON_OBJECT", pattern |-> <<Lit(JSON_OBJECT)>>],
      [source |-> "JSON_ARRAY", pattern |-> <<Lit(JSON_ARRAY)>>],
      [source |-> "JSON_VALID", pattern |-> <<Lit(JSON_VALID)>>],
      [source |-> "JSON_TYPE", pattern |-> <<Lit(JSON_TYPE)>>],
      [source |-> "JSON_COMPACT", pattern |-> <<Lit(JSON_COMPACT)>>],
      [source |-> "JSON_LOOSE", pattern |-> <<Lit(JSON_LOOSE)>>],
      [source |-> "JSON_DETAILED", pattern |-> <<Lit(JSON_DETAILED)>>],
      [source |-> "MATCH.*AGAINST.*IN NATURAL LANGUAGE MODE WITH QUERY EXPANSION",
       pattern |-> <<Lit(MATCH), AnyChars, Lit(AGAINST), AnyChars,
                     Lit(IN_NATURAL_LANGUAGE_MODE_WITH_QUERY_EXPANSION)>>],
      [source |-> "WINDOW FUNCTION", pattern |-> <<Lit(WINDOW_FUNCTION)>>],
      [source |-> "OVER\\s*\\(", pattern |-> CallOf(OVER)],
      [source |-> "ROW_NUMBER\\s*\\(", pattern |-> CallOf(ROW_NUMBER)],
      [source |-> "RANK\\s*\\(", pattern |-> CallOf(RANK)],
      [source |-> "DENSE_RANK\\s*\\(", pattern |-> CallOf(DENSE_RANK)],
      [source |-> "PARTITION BY", pattern |-> <<Lit(PARTITION_BY)>>]>>

\* the parts of the pattern from part k on match str from position pos on;
\* with the flag "i" a letter matches whatever its case (a literal is tried
\* on its first character, then whole)
RECURSIVE MatchesAt(_, _, _, _)
MatchesAt(pattern, k, str, pos) ==
    IF k > Len(pattern) THEN TRUE
    ELSE IF pattern[k].part = "literal"
         THEN /\ pos + Len(pattern[k].text) - 1 <= Len(str)
              /\ toUpperCaseChar(str[pos]) = toUpperCaseChar(pattern[k].text[1])
              /\ toUpperCase(SubSeq(str, pos, pos + Len(pattern[k].text) - 1))
                     = toUpperCase(pattern[k].text)
              /\ MatchesAt(pattern, k + 1, str, pos + Len(pattern[k].text))
         ELSE \/ MatchesAt(pattern, k + 1, str, pos)
              \/ /\ pos <= Len(str)
                 /\ IF pattern[k].part = ".*" THEN ~IsLineTerminator(str[pos])
                    ELSE IsSpace(str[pos])
                 /\ MatchesAt(pattern, k, str, pos + 1)

\* new RegExp(feature, 'i').test(str)
RegExpTest(pattern, str) ==
    \E pos \in 1..(Len(str) + 1) : MatchesAt(pattern, 1, str, pos)

\* the null that checkMariaDB10_0_Compatibility returns without a match
NoWarning == [found |-> FALSE, feature |-> ""]

\* the warning of line 103: it quotes the table entry that matched
Warning(feature) == [found |-> TRUE, feature |-> feature.source]

\* the loop of lines 100-105 from table entry idx on: the first match returns
RECURSIVE ScanFrom(_, _)
ScanFrom(idx, normalizedQuery) ==
    IF idx > Len(MARIADB_10_0_UNSUPPORTED_FEATURES) THEN NoWarning
    ELSE IF RegExpTest(MARIADB_10_0_UNSUPPORTED_FEATURES[idx].pattern, normalizedQuery)
         THEN Warning(MARIADB_10_0_UNSUPPORTED_FEATURES[idx])
    ELSE ScanFrom(idx + 1, normalizedQuery)

checkMariaDB10_0_Compatibility(text) == ScanFrom(1, toUpperCase(text))

(***************************************************************************)
(* validators.ts: isAlloowedQuery.                                         *)
(***************************************************************************)
\* the normalisation at the head of isAlloowedQuery
NormalizeQuery(text) ==
    toUpperCase(trim(CollapseWhitespace(RemoveBlockComments(RemoveLineComments(text)))))

\* the flag read without regard to the case of its letters
ALLOW_INSERT_IgnoringCase(e) ==
    /\ e.MARIADB_ALLOW_INSERT.defined
    /\ toUpperCase(e.MARIADB_ALLOW_INSERT.value) = <<"T", "R", "U", "E">>

ALLOW_INSERT(e) == e.MARIADB_ALLOW_INSERT = Str(<<"t", "r", "u", "e">>)
ALLOW_UPDATE(e) == e.MARIADB_ALLOW_UPDATE = Str(<<"t", "r", "u", "e">>)
ALLOW_DELETE(e) == e.MARIADB_ALLOW_DELETE = Str(<<"t", "r", "u", "e">>)

\* AllowedCommands with the write commands pushed whatever the flags are
AllowedCommandsUnconditional(e) ==
    BASE_ALLOWED_COMMANDS
        \o <<CONDITIONAL_COMMANDS.INSERT, CONDITIONAL_COMMANDS.UPDATE,
              CONDITIONAL_COMMANDS.DELETE>>

\* allowedCommands: the base list, then each write command whose flag is set
AllowedCommands(e) ==
    BASE_ALLOWED_COMMANDS
        \o (IF ALLOW_INSERT(e) THEN <<CONDITIONAL_COMMANDS.INSERT>> ELSE <<>>)
        \o (IF ALLOW_UPDATE(e) THEN <<CONDITIONAL_COMMANDS.UPDATE>> ELSE <<>>)
        \o (IF ALLOW_DELETE(e) THEN <<CONDITIONAL_COMMANDS.DELETE>> ELSE <<>>)

\* StartsWithAllowed without its "|| normalizedQuery === cmd"
StartsWithAllowedPrefixOnly(normalizedQuery, e) ==
    \E idx \in DOMAIN AllowedCommands(e) :
        startsWith(normalizedQuery, AllowedCommands(e)[idx] \o <<" ">>)

StartsWithAllowed(normalizedQuery, e) ==
    \E idx \in DOMAIN AllowedCommands(e) :
        LET cmd == AllowedCommands(e)[idx]
        IN  \/ startsWith(normalizedQuery, cmd \o <<" ">>)
            \/ normalizedQuery = cmd

ContainsDisallowed(normalizedQuery) ==
    \E idx \in DOMAIN DISALLOWED_COMMANDS :
        TestStandalone(DISALLOWED_COMMANDS[idx], normalizedQuery)

HasMultipleStatements(normalizedQuery) ==
    /\ includes(normalizedQuery, <<";">>)
    /\ ~endsWith(normalizedQuery, <<";">>)

\* Analysis with the compatibility warning made a reason to deny
AnalysisWarningDenies(text, e) ==
    LET normalizedQuery == NormalizeQuery(text)
        compatibilityWarning == checkMariaDB10_0_Compatibility(text)
        startsWithAllowed == StartsWithAllowed(normalizedQuery, e)
        containsDisallowed == ContainsDisallowed(normalizedQuery)
        hasMultipleStatements == HasMultipleStatements(normalizedQuery)
    IN  [normalizedQuery |-> normalizedQuery,
         compatibilityWarning |-> compatibilityWarning,
         startsWithAllowed |-> startsWithAllowed,
         containsDisallowed |-> containsDisallowed,
         hasMultipleStatements |-> hasMultipleStatements,
         result |-> startsWithAllowed /\ ~containsDisallowed /\ ~hasMultipleStatements
                        /\ ~compatibilityWarning.found]

\* every local of one isAlloowedQuery(text) call under environment e; the
\* compatibility warning goes to the log and nowhere else
Analysis(text, e) ==
    LET normalizedQuery == NormalizeQuery(text)
        compatibilityWarning == checkMariaDB10_0_Compatibility(text)
        startsWithAllowed == StartsWithAllowed(normalizedQuery, e)
        containsDisallowed == ContainsDisallowed(normalizedQuery)
        hasMultipleStatements == HasMultipleStatements(normalizedQuery)
    IN  [normalizedQuery |-> normalizedQuery,
         compatibilityWarning |-> compatibilityWarning,
         startsWithAllowed |-> startsWithAllowed,
         containsDisallowed |-> containsDisallowed,
         hasMultipleStatements |-> hasMultipleStatements,
         result |-> startsWithAllowed /\ ~containsDisallowed /\ ~hasMultipleStatements]

isAlloowedQuery(text, e) == Analysis(text, e).result

(***************************************************************************)
(* validators.ts: validateQuery.  Its argument is a JavaScript value, a    *)
(* record with its kind (see below); only a string has a text.             *)
(***************************************************************************)
\* "!query": null, undefined, false, 0 and the empty string
Falsy(value) ==
    \/ value.kind \in {"null", "undefined"}
    \/ value.kind = "boolean" /\ ~value.val
    \/ value.kind = "number" /\ value.val = 0
    \/ value.kind = "string" /\ value.val = <<>>

\* validateQuery without its first test
validateQueryNoEmptyCheck(value, e) ==
    IF value.kind = "string" /\ ~isAlloowedQuery(value.val, e)
    THEN [threw |-> TRUE,
          error |-> "Query contains disallowed commands or is not permitted by current configuration"]
    ELSE [threw |-> FALSE, error |-> ""]

\* validateQuery(value): it returns, or the error it throws
validateQuery(value, e) ==
    IF Falsy(value) \/ value.kind # "string"
    THEN [threw |-> TRUE, error |-> "Query must be a non-empty string"]
    ELSE IF ~isAlloowedQuery(value.val, e)
    THEN [threw |-> TRUE,
          error |-> "Query contains disallowed commands or is not permitted by current configuration"]
    ELSE [threw |-> FALSE, error |-> ""]

(***************************************************************************)
(* connection.ts: getConfigFromEnv.                                        *)
(***************************************************************************)
DigitValue ==
    [c \in {"0", "1", "2", "3", "4", "5", "6", "7", "8", "9"} |->
        CASE c = "0" -> 0 [] c = "1" -> 1 [] c = "2" -> 2 [] c = "3" -> 3
          [] c = "4" -> 4 [] c = "5" -> 5 [] c = "6" -> 6 [] c = "7" -> 7
          [] c = "8" -> 8 [] c = "9" -> 9]

IsDigit(ch) == ch \in DOMAIN DigitValue

\* the value of the longest all-digit prefix of str, continuing from acc
RECURSIVE DigitsPrefixValue(_, _)
DigitsPrefixValue(str, acc) ==
    IF str = <<>> \/ ~IsDigit(Head(str)) THEN acc
    ELSE DigitsPrefixValue(Tail(str), 10 * acc + DigitValue[Head(str)])

NaN == [isNaN |-> TRUE, n |-> 0]
Num(n) == [isNaN |-> FALSE, n |-> n]

\* parseInt(str, 10): leading whitespace, a sign, then the digits up to the
\* first character that is none; NaN without a digit
parseInt(str) ==
    LET body == SkipSpaces(str)
        signed == body # <<>> /\ Head(body) \in {"+", "-"}
        digits == IF signed THEN Tail(body) ELSE body
    IN  IF digits = <<>> \/ ~IsDigit(Head(digits)) THEN NaN
        ELSE IF signed /\ Head(body) = "-" THEN Num(0 - DigitsPrefixValue(digits, 0))
        ELSE Num(DigitsPrefixValue(digits, 0))

\* JavaScript truthiness of a process.env value: set and not the empty string
Truthy(x) == x.defined /\ x.value # <<>>

DEFAULT_PORT == 3306

\* getConfigFromEnv without its test of the password
getConfigFromEnvNoPasswordCheck(e) ==
    IF ~Truthy(e.MARIADB_HOST) THEN [threw |-> TRUE, error |-> "MARIADB_HOST environment variable is required"]
    ELSE IF ~Truthy(e.MARIADB_USER) THEN [threw |-> TRUE, error |-> "MARIADB_USER environment variable is required"]
    ELSE [threw |-> FALSE,
          host |-> e.MARIADB_HOST.value,
          port |-> IF Truthy(e.MARIADB_PORT) THEN parseInt(e.MARIADB_PORT.value) ELSE Num(DEFAULT_PORT),
          user |-> e.MARIADB_USER.value,
          password |-> e.MARIADB_PASSWORD.value,
          database |-> e.MARIADB_DATABASE,
          allow_insert |-> e.MARIADB_ALLOW_INSERT = Str(<<"t", "r", "u", "e">>),
          allow_update |-> e.MARIADB_ALLOW_UPDATE = Str(<<"t", "r", "u", "e">>),
          allow_delete |-> e.MARIADB_ALLOW_DELETE = Str(<<"t", "r", "u", "e">>)]

\* getConfigFromEnv: the configuration, or the error it throws
getConfigFromEnv(e) ==
    IF ~Truthy(e.MARIADB_HOST) THEN [threw |-> TRUE, error |-> "MARIADB_HOST environment variable is required"]
    ELSE IF ~Truthy(e.MARIADB_USER) THEN [threw |-> TRUE, error |-> "MARIADB_USER environment variable is required"]
    ELSE IF ~Truthy(e.MARIADB_PASSWORD) THEN [threw |-> TRUE, error |-> "MARIADB_PASSWORD environment variable is required"]
    ELSE [threw |-> FALSE,
          host |-> e.MARIADB_HOST.value,
          port |-> IF Truthy(e.MARIADB_PORT) THEN parseInt(e.MARIADB_PORT.value) ELSE Num(DEFAULT_PORT),
          user |-> e.MARIADB_USER.value,
          password |-> e.MARIADB_PASSWORD.value,
          database |-> e.MARIADB_DATABASE,
          allow_insert |-> e.MARIADB_ALLOW_INSERT = Str(<<"t", "r", "u", "e">>),
          allow_update |-> e.MARIADB_ALLOW_UPDATE = Str(<<"t", "r", "u", "e">>),
          allow_delete |-> e.MARIADB_ALLOW_DELETE = Str(<<"t", "r", "u", "e">>)]

(***************************************************************************)
(* JavaScript values, as the driver hands them back: every value is a      *)
(* record with its kind.  An object is the sequence of its own [key, value] *)
(* entries (the order of Object.entries).                                  *)
(***************************************************************************)
JNull == [kind |-> "null"]
JUndefined == [kind |-> "undefined"]
JBool(b) == [kind |-> "boolean", val |-> b]
JNumber(n) == [kind |-> "number", val |-> n]
JString(s) == [kind |-> "string", val |-> s]
JBigInt(n) == [kind |-> "bigint", val |-> n]
JArray(items) == [kind |-> "array", items |-> items]
JObject(entries) == [kind |-> "object", entries |-> entries]

\* a Date, as the driver returns for a DATETIME column: an object (typeof
\* 'object', no array) without own enumerable entries
JDate(time) == [kind |-> "object", entries |-> <<>>, class |-> "Date", time |-> time]

DigitChar == <<"0", "1", "2", "3", "4", "5", "6", "7", "8", "9">>

\* the decimal digits of n >= 0
RECURSIVE DigitsOf(_)
DigitsOf(n) ==
    IF n < 10 THEN <<DigitChar[n + 1]>>
    ELSE DigitsOf(n \div 10) \o <<DigitChar[(n % 10) + 1]>>

\* BigInt.prototype.toString
BigIntToString(n) == IF n < 0 THEN <<"-">> \o DigitsOf(0 - n) ELSE DigitsOf(n)

(***************************************************************************)
(* connection.ts: convertBigIntToString.                                   *)
(***************************************************************************)
\* convertBigIntToString without its descent into arrays and objects
convertBigIntToStringShallow(obj) ==
    IF obj.kind = "bigint" THEN JString(BigIntToString(obj.val)) ELSE obj

\* convertBigIntToString without its descent into objects
RECURSIVE convertBigIntToStringArraysOnly(_)
convertBigIntToStringArraysOnly(obj) ==
    IF obj.kind = "bigint" THEN JString(BigIntToString(obj.val))
    ELSE IF obj.kind = "array"
         THEN JArray([idx \in 1..Len(obj.items) |->
                         convertBigIntToStringArraysOnly(obj.items[idx])])
    ELSE obj

RECURSIVE convertBigIntToString(_)
convertBigIntToString(obj) ==
    IF obj.kind \in {"null", "undefined"} THEN obj
    ELSE IF obj.kind = "bigint" THEN JString(BigIntToString(obj.val))
    ELSE IF obj.kind = "array"
         THEN JArray([idx \in 1..Len(obj.items) |-> convertBigIntToString(obj.items[idx])])
    ELSE IF obj.kind = "object"
         THEN JObject([idx \in 1..Len(obj.entries) |->
                          [key |-> obj.entries[idx].key,
                           value |-> convertBigIntToString(obj.entries[idx].value)]])
    ELSE obj

(***************************************************************************)
(* connection.ts: executeQuery, from the driver's rows to the return.      *)
(***************************************************************************)
DEFAULT_ROW_LIMIT == 1000

\* limitedRows
LimitRows(rows) ==
    IF rows.kind = "array" /\ Len(rows.items) > DEFAULT_ROW_LIMIT
    THEN JArray(SubSeq(rows.items, 1, DEFAULT_ROW_LIMIT))
    ELSE rows

\* serializedRows: what executeQuery returns as rows
SerializedRows(rows) == convertBigIntToString(LimitRows(rows))

(***************************************************************************)
(* connection.ts: the pool, the connection and executeQuery.               *)
(* An invocation runs without interruption from one await to the next      *)
(* (JavaScript's run-to-completion), so each action below is one such      *)
(* stretch of executeQuery; invocations interleave at the awaits only.     *)
(***************************************************************************)
connectionLimit == 2
MaxInvocations == 2
MaxCalls == 2

Sessions == 1..connectionLimit
Slots == 1..MaxInvocations

\* the null of "let connection: mariadb.PoolConnection | null"
null == 0

\* an executeQuery invocation: its arguments, where it stands, and what it
\* has done so far
NoCall ==
    [pc |-> "idle",          \* idle | getConnection | granted | use | query |
                             \* returned | threw
     sql |-> <<>>, params |-> <<>>, database |-> undefined,
     stmtOn |-> null,        \* the session its awaited statement was sent on
     got |-> null,           \* the session the pool granted to this call
     gotFailed |-> FALSE,    \* that session had ended an execution in error
     sent |-> <<>>,          \* the statements it has sent to the driver
     ranOn |-> undefined,    \* the active database its query ran against
     rows |-> JUndefined,    \* the rows it returned
     error |-> ""]           \* the error it threw

\* connection.release(): the pool takes session c back
Release(ss, c) == [ss EXCEPT ![c] = [@ EXCEPT !.state = "idle", !.holder = null]]

\* the catch block and, after it, the finally block (lines 150-165): m is
\* the record [connection, sess, me] of what the invocation reads and writes
CatchFinally(m, err) ==
    [connection |-> null,
     sess |-> IF m.connection # null THEN Release(m.sess, m.connection) ELSE m.sess,
     me |-> [m.me EXCEPT !.pc = "threw", !.error = err]]

\* the return and the finally block (lines 149, 158-165)
ReturnFinally(m, rows) ==
    [connection |-> null,
     sess |-> IF m.connection # null THEN Release(m.sess, m.connection) ELSE m.sess,
     me |-> [m.me EXCEPT !.pc = "returned", !.rows = rows]]

\* the USE statement of line 118, the database name between its quotes
UseStatement(db) == <<"U", "S", "E", " ">> \o db

\* connection.query({metaAsArray: true, namedPlaceholders: false, sql,
\* ...params}) (lines 125-131): one argument, whose own keys are the options
\* and, by the spread, the indices of params; no values argument
QueryCall(c, sql, params) ==
    [on |-> c, sql |-> sql, metaAsArray |-> TRUE, namedPlaceholders |-> FALSE,
     spread |-> params, values |-> <<>>]

\* connection.query(...) is called on session c for invocation i: the
\* statement joins those the session has still to answer, in order
Pending(ss, c, i) == [ss EXCEPT ![c] = [@ EXCEPT !.pending = Append(@, i)]]

\* lines 120-131: the admission test, then the query is sent on connection
FromAdmission(i, m) ==
    IF ~isAlloowedQuery(m.me.sql, env) THEN CatchFinally(m, "Query not allowed")
    ELSE IF m.connection = null THEN CatchFinally(m, "TypeError: connection is null")
    ELSE [m EXCEPT !.sess = Pending(@, m.connection, i),
                   !.me.pc = "query",
                   !.me.stmtOn = m.connection,
                   !.me.sent = Append(@, QueryCall(m.connection, m.me.sql, m.me.params))]

\* lines 115-131: USE is sent first when a database is given
FromDatabase(i, m) ==
    IF Truthy(m.me.database)
    THEN [m EXCEPT !.sess = Pending(@, m.connection, i),
                   !.me.pc = "use",
                   !.me.stmtOn = m.connection,
                   !.me.sent = Append(@, [on |-> m.connection,
                                          sql |-> UseStatement(m.me.database.value),
                                          values |-> <<>>])]
    ELSE FromAdmission(i, m)

\* what an action that ran invocation i to m leaves behind
Commit(i, m) ==
    /\ connection' = m.connection
    /\ sess' = m.sess
    /\ inv' = [inv EXCEPT ![i] = m.me]

\* createConnectionPool() with the module's pool p, mariadb.createPool having
\* run created times: the configuration is read first (line 53), an existing
\* pool is returned as it is (lines 54-57), and mariadb.createPool runs
\* otherwise (it opens no session yet and does not throw on these options)
createConnectionPoolAlways(p, created, e) ==
    LET config == getConfigFromEnv(e)
    IN  IF config.threw
        THEN [threw |-> TRUE, error |-> config.error, pool |-> p, created |-> created]
        ELSE [threw |-> FALSE, error |-> "", pool |-> "live", created |-> created + 1]

createConnectionPool(p, created, e) ==
    LET config == getConfigFromEnv(e)
    IN  IF config.threw
        THEN [threw |-> TRUE, error |-> config.error, pool |-> p, created |-> created]
        ELSE IF p # "null"
        THEN [threw |-> FALSE, error |-> "", pool |-> p, created |-> created]
        ELSE [threw |-> FALSE, error |-> "", pool |-> "live", created |-> created + 1]

\* createConnectionPool() is called (by the server at its start, or by a tool)
CreateConnectionPool ==
    /\ calls < MaxCalls
    /\ calls' = calls + 1
    /\ LET made == createConnectionPool(pool, setup.created, env)
       IN  /\ pool' = made.pool
           /\ setup' = [created |-> made.created,
                        last |-> IF made.threw THEN "threw"
                                 ELSE IF made.created > setup.created THEN "created"
                                 ELSE "existing"]
    /\ UNCHANGED <<env, input, query, verdict, validated, rawRows, returned, connection, sess,
                   poolQueue, inv>>

\* executeQuery(sql, params, database) is called: lines 100-113, and on to
\* line 131 when the module's connection is set already.  The invocation is
\* kept in the first slot that holds no running one (slots are names only).
Start(i, sql, params, database) ==
    /\ inv[i].pc \in {"idle", "returned", "threw"}
    /\ \A j \in 1..(i - 1) : inv[j].pc \notin {"idle", "returned", "threw"}
    /\ calls < MaxCalls
    /\ calls' = calls + 1
    /\ LET me == [NoCall EXCEPT !.sql = sql, !.params = params, !.database = database]
           made == IF pool = "null" THEN createConnectionPool(pool, setup.created, env)
                   ELSE [threw |-> FALSE, error |-> "", pool |-> pool,
                         created |-> setup.created]
       IN  IF made.threw
           THEN /\ inv' = [inv EXCEPT ![i] = [me EXCEPT !.pc = "threw", !.error = made.error]]
                /\ UNCHANGED <<pool, setup, connection, sess, poolQueue>>
           ELSE /\ pool' = made.pool
                /\ setup' = [setup EXCEPT !.created = made.created]
                /\ IF connection # null
                   THEN /\ Commit(i, FromDatabase(i, [connection |-> connection, sess |-> sess, me |-> me]))
                        /\ UNCHANGED poolQueue
                   ELSE /\ inv' = [inv EXCEPT ![i] = [me EXCEPT !.pc = "getConnection"]]
                        /\ poolQueue' = Append(poolQueue, i)
                        /\ UNCHANGED <<connection, sess>>
    /\ UNCHANGED <<env, input, query, verdict, validated, rawRows, returned>>

\* the pool answers the oldest getConnection request with an idle session
\* (which of its idle sessions is the driver's choice)
Grant(i, s) ==
    /\ pool = "live"
    /\ poolQueue # <<>> /\ Head(poolQueue) = i
    /\ inv[i].pc = "getConnection"
    /\ sess[s].state = "idle"
    /\ sess' = [sess EXCEPT ![s] = [@ EXCEPT !.state = "out", !.holder = i]]
    /\ inv' = [inv EXCEPT ![i] = [@ EXCEPT !.pc = "granted", !.got = s,
                                           !.gotFailed = sess[s].errored]]
    /\ poolQueue' = Tail(poolQueue)
    /\ UNCHANGED <<env, input, query, verdict, validated, rawRows, returned, pool, setup, connection, calls>>

\* "connection = await pool.getConnection()" resumes (line 112), on to line 131
Resume(i) ==
    /\ inv[i].pc = "granted"
    /\ Commit(i, FromDatabase(i, [connection |-> inv[i].got, sess |-> sess, me |-> inv[i]]))
    /\ UNCHANGED <<env, input, query, verdict, validated, rawRows, returned, pool, setup, poolQueue, calls>>

\* the pool cannot hand out a session within acquireTimeout (every session
\* stays checked out, or the server cannot be reached): getConnection
\* rejects, line 112 throws, the catch and finally blocks run
GetConnectionRejects(i) ==
    /\ poolQueue # <<>> /\ Head(poolQueue) = i
    /\ inv[i].pc = "getConnection"
    /\ poolQueue' = Tail(poolQueue)
    /\ Commit(i, CatchFinally([connection |-> connection, sess |-> sess, me |-> inv[i]],
                              "pool timeout"))
    /\ UNCHANGED <<env, input, query, verdict, validated, rawRows, returned, pool, setup, calls>>

\* the session answers its oldest statement, that of invocation i
Answered(ss, c) == [ss EXCEPT ![c] = [@ EXCEPT !.pending = Tail(@)]]

\* the driver answers the USE statement (line 118): done, and the session's
\* active database is the one named, or an error.  A session answers its
\* statements in the order they were sent.
UseDone(i, ok) ==
    /\ inv[i].pc = "use"
    /\ Head(sess[inv[i].stmtOn].pending) = i
    /\ LET c == inv[i].stmtOn
           me == [inv[i] EXCEPT !.stmtOn = null]
       IN  IF ok
           THEN Commit(i, FromAdmission(i,
                    [connection |-> connection,
                     sess |-> [Answered(sess, c) EXCEPT ![c] = [@ EXCEPT !.db = inv[i].database]],
                     me |-> me]))
           ELSE Commit(i, CatchFinally(
                    [connection |-> connection,
                     sess |-> [Answered(sess, c) EXCEPT ![c] = [@ EXCEPT !.errored = TRUE]],
                     me |-> me], "driver error"))
    /\ UNCHANGED <<env, input, query, verdict, validated, rawRows, returned, pool, setup, poolQueue, calls>>

\* the rows the driver may answer a query with
DriverRows ==
    <<JArray(<<JObject(<<[key |-> <<"i", "d">>, value |-> JBigInt(7)]>>)>>)>>

\* the driver answers the query (line 125): rows (lines 133-149 and the
\* finally block run), or an error (the catch and finally blocks run)
QueryDone(i, ok, raw) ==
    /\ inv[i].pc = "query"
    /\ Head(sess[inv[i].stmtOn].pending) = i
    /\ LET c == inv[i].stmtOn
           me == [inv[i] EXCEPT !.stmtOn = null]
       IN  IF ok
           THEN Commit(i, ReturnFinally(
                    [connection |-> connection, sess |-> Answered(sess, c),
                     me |-> [me EXCEPT !.ranOn = sess[c].db]],
                    SerializedRows(raw)))
           ELSE Commit(i, CatchFinally(
                    [connection |-> connection,
                     sess |-> [Answered(sess, c) EXCEPT ![c] = [@ EXCEPT !.errored = TRUE]],
                     me |-> me], "driver error"))
    /\ UNCHANGED <<env, input, query, verdict, validated, rawRows, returned, pool, setup, poolQueue, calls>>

(***************************************************************************)
(* The environments, the query texts and the driver results explored.      *)
(***************************************************************************)
TrueText == <<"t", "r", "u", "e">>

\* an environment with the required variables set and the defaults elsewhere
BaseEnv ==
    [MARIADB_HOST |-> Str(<<"h">>),
     MARIADB_PORT |-> undefined,
     MARIADB_USER |-> Str(<<"u">>),
     MARIADB_PASSWORD |-> Str(<<"p">>),
     MARIADB_DATABASE |-> Str(<<"a", "p", "p">>),
     MARIADB_ALLOW_INSERT |-> undefined,
     MARIADB_ALLOW_UPDATE |-> undefined,
     MARIADB_ALLOW_DELETE |-> undefined,
     MARIADB_ROW_LIMIT |-> undefined]

FlagValues == {undefined, Str(TrueText)}

\* every combination of the three write flags
AdmitEnvs ==
    {[BaseEnv EXCEPT !.MARIADB_ALLOW_INSERT = fi,
                     !.MARIADB_ALLOW_UPDATE = fu,
                     !.MARIADB_ALLOW_DELETE = fd] :
        fi \in FlagValues, fu \in FlagValues, fd \in FlagValues}

\* what a write flag's variable may hold: nothing, "true", and texts that are
\* not "true": "TRUE", "True", "1", "false", "" and " true"
WideFlagValues ==
    {undefined, Str(TrueText), Str(<<"T", "R", "U", "E">>), Str(<<"T", "r", "u", "e">>),
     Str(<<"1">>), Str(<<"f", "a", "l", "s", "e">>), Str(<<>>),
     Str(<<" ", "t", "r", "u", "e">>)}

\* every combination of these in the three write flags, the required
\* variables set; and the combinations of two values without a host
FlagEnvs ==
    {[BaseEnv EXCEPT !.MARIADB_ALLOW_INSERT = fi,
                     !.MARIADB_ALLOW_UPDATE = fu,
                     !.MARIADB_ALLOW_DELETE = fd] :
        fi \in WideFlagValues, fu \in WideFlagValues, fd \in WideFlagValues}
    \cup {[e EXCEPT !.MARIADB_HOST = undefined] : e \in AdmitEnvs}

\* one statement of each write command, and a read
FlagQueries ==
    {<<"I", "N", "S", "E", "R", "T", " ", "I", "N", "T", "O", " ", "t", " ",
       "V", "A", "L", "U", "E", "S", " ", "(", "1", ")">>,
     <<"u", "p", "d", "a", "t", "e", " ", "t", " ", "S", "E", "T", " ", "a", " ", "=", " ", "1">>,
     <<"D", "E", "L", "E", "T", "E", " ", "F", "R", "O", "M", " ", "t", ";">>,
     <<"S", "E", "L", "E", "C", "T", " ", "1">>}

\* the required variables set, with and without a port and a write flag; and
\* one required variable unset or empty
ExecEnvs ==
    {BaseEnv,
     [BaseEnv EXCEPT !.MARIADB_PORT = Str(<<"3", "3", "0", "7">>),
                     !.MARIADB_ALLOW_INSERT = Str(TrueText)],
     [BaseEnv EXCEPT !.MARIADB_HOST = undefined],
     [BaseEnv EXCEPT !.MARIADB_HOST = Str(<<>>)],
     [BaseEnv EXCEPT !.MARIADB_USER = undefined],
     [BaseEnv EXCEPT !.MARIADB_PASSWORD = undefined],
     [BaseEnv EXCEPT !.MARIADB_PASSWORD = Str(<<>>)]}

\* with and without a configured row limit
RowEnvs ==
    {[BaseEnv EXCEPT !.MARIADB_ROW_LIMIT = v] :
        v \in {undefined, Str(<<"1", "0", "0", "0">>), Str(<<"2">>)}}

RECURSIVE Concat(_)
Concat(pieces) ==
    IF pieces = <<>> THEN <<>> ELSE Head(pieces) \o Concat(Tail(pieces))

\* how a query text may begin
Leads ==
    {<<>>, SELECT, SHOW, DESCRIBE, DESC, EXPLAIN, INSERT, UPDATE, DELETE, DROP,
     <<"i", "n", "s", "e", "r", "t">>}

\* what may follow, piece after piece
Pieces ==
    {<<" ">>, <<";">>, <<"(">>, <<"-", "-">>, <<"\n">>, <<"/", "*">>, <<"*", "/">>, DROP}

MaxPieces == 2

\* the inverse of UpperOf on the capital letters, every other character kept
toLowerCaseText(str) ==
    [idx \in 1..Len(str) |->
        IF \E lc \in DOMAIN UpperOf : UpperOf[lc] = str[idx]
        THEN CHOOSE lc \in DOMAIN UpperOf : UpperOf[lc] = str[idx]
        ELSE str[idx]]

\* SELECT ROW_NUMBER() OVER (ORDER BY id) FROM t
WindowQuery ==
    SELECT \o <<" ">> \o ROW_NUMBER \o <<"(", ")", " ">> \o OVER
           \o <<" ", "(", "O", "R", "D", "E", "R", " ", "B", "Y", " ", "i", "d", ")",
                 " ", "F", "R", "O", "M", " ", "t">>

\* the examples of the specification and of the README
Examples ==
    {SELECT \o <<" ", "1", ";", " ">> \o DROP \o <<" ", "T", "A", "B", "L", "E", " ", "t">>,
     SELECT \o <<" ", "1", ";">> \o DROP \o <<" ", "T", "A", "B", "L", "E", " ", "t", ";">>,
     SELECT \o <<" ", "1", ";", " ">> \o SELECT \o <<" ", "2">>,
     SELECT \o <<" ", "1", ";", " ">> \o SELECT \o <<" ", "2", ";">>,
     SELECT \o <<" ", "1", ";">>,
     INSERT \o <<" ", "I", "N", "T", "O", " ", "t", " ", "V", "A", "L", "U", "E", "S",
                 " ", "(", "1", ")">>,
     DELETE \o <<" ", "F", "R", "O", "M", " ", "t", ";">> \o DROP
            \o <<" ", "T", "A", "B", "L", "E", " ", "t", ";">>,
     DESCRIBE \o <<"/", "*">> \o DROP \o <<"*", "/">>,
     SHOW \o <<" ", "(">> \o DROP,
     WindowQuery,
     SELECT \o <<" ">> \o toLowerCaseText(JSON_EXTRACT) \o <<"(", "a", ")", ",", " ">>
            \o RANK \o <<"(", ")", " ">> \o OVER \o <<" ", "(", ")">>,
     SELECT \o <<" ", "1", " ", "-", "-", " ">> \o PARTITION_BY,
     SELECT \o <<" ">> \o MATCH \o <<"(", "a", ")", " ">> \o AGAINST \o <<"(", "b", " ">>
            \o IN_NATURAL_LANGUAGE_MODE_WITH_QUERY_EXPANSION \o <<")">>,
     DROP \o <<" ", "T", "A", "B", "L", "E", " ", "t">> \o <<" ">> \o JSON_TYPE,
     <<" ", "\t", "\n">>,
     <<"-", "-", " ", "x", "\n", "/", "*", " ", "y", " ", "*", "/", " ">>}

MaxValidatePieces == 1

\* the texts validateQuery is run on
ValidateTexts ==
    {lead \o Concat(body) :
        lead \in Leads, body \in UNION {[1..len -> Pieces] : len \in 0..MaxValidatePieces}}
    \cup Examples

\* what validateQuery may be handed that is no string
NonStrings ==
    <<JNull, JUndefined, JBool(FALSE), JBool(TRUE), JNumber(0), JNumber(5),
      JArray(<<>>), JObject(<<>>)>>

\* the query texts admission is run on
Queries ==
    {lead \o Concat(body) :
        lead \in Leads, body \in UNION {[1..len -> Pieces] : len \in 0..MaxPieces}}
    \cup Examples

MaxSmallRows == 40
MaxExtraRows == 2

\* the lengths of the row lists: short ones, and those around the limit
RowCounts ==
    (0..MaxSmallRows) \cup ((DEFAULT_ROW_LIMIT - 1)..(DEFAULT_ROW_LIMIT + MaxExtraRows))

\* a list of len rows, row k holding the wide integer k
RowList(len) ==
    JArray([k \in 1..len |-> JObject(<<[key |-> <<"i", "d">>, value |-> JBigInt(k)]>>)])

\* values of every kind, wide integers at every depth among them
NestedValues ==
    <<JNull, JUndefined, JBool(TRUE), JNumber(42), JString(<<"1", "2">>),
      JBigInt(0), JBigInt(-5), JBigInt(2147483647),
      JArray(<<JBigInt(9), JNull,
               JArray(<<JBigInt(10), JString(<<"x">>), JArray(<<JBigInt(-77)>>)>>)>>),
      JObject(<<[key |-> <<"i", "d">>, value |-> JBigInt(1234567890)],
                [key |-> <<"n">>,
                 value |-> JObject(<<[key |-> <<"b", "i", "g">>, value |-> JBigInt(-1)],
                                     [key |-> <<"s">>, value |-> JString(<<"7">>)],
                                     [key |-> <<"o", "k">>, value |-> JBool(FALSE)]>>)],
                [key |-> <<"l">>, value |-> JArray(<<JNumber(1), JBigInt(100)>>)],
                [key |-> <<"z">>, value |-> JNull]>>),
      JArray(<<JObject(<<[key |-> <<"a", "t">>, value |-> JDate(0)],
                         [key |-> <<"i", "d">>, value |-> JBigInt(3)]>>)>>)>>

\* what the driver answers a statement that returns no rows with
OkPacket ==
    JObject(<<[key |-> <<"a", "f", "f", "e", "c", "t", "e", "d", "R", "o", "w", "s">>,
               value |-> JNumber(1)]>>)

\* the arguments executeQuery is called with: a query admission allows and
\* one it denies, each with and without a database
SelectOne == SELECT \o <<" ", "1">>
DropTable == DROP \o <<" ", "T", "A", "B", "L", "E", " ", "t">>
OtherDb == Str(<<"o", "t", "h", "e", "r">>)
ExecRequests ==
    {[sql |-> SelectOne, params |-> <<>>, database |-> undefined],
     [sql |-> SelectOne, params |-> <<JNumber(1)>>, database |-> OtherDb],
     [sql |-> DropTable, params |-> <<>>, database |-> undefined],
     [sql |-> DropTable, params |-> <<>>, database |-> OtherDb]}

(***************************************************************************)
(* The specifications.                                                     *)
(***************************************************************************)
vars ==
    <<env, input, query, verdict, validated, rawRows, returned, pool, setup, connection, sess,
      poolQueue, inv, calls>>

NoVerdict == [done |-> FALSE]
NotValidated == [done |-> FALSE]
NoSetup == [created |-> 0, last |-> "none"]
NotReturned == [done |-> FALSE]

\* nothing has run: no pool, no connection, every session of the pool to be
\* idle on the configured database, no invocation
Idle ==
    /\ pool = "null"
    /\ setup = NoSetup
    /\ connection = null
    /\ sess = [s \in Sessions |->
                 [state |-> "idle", holder |-> null, db |-> env.MARIADB_DATABASE,
                  pending |-> <<>>, errored |-> FALSE]]
    /\ poolQueue = <<>>
    /\ inv = [i \in Slots |-> NoCall]
    /\ calls = 0

\* executeQuery, called again and again, the calls overlapping
Init ==
    /\ env \in ExecEnvs
    /\ input = JUndefined
    /\ query = <<>>
    /\ verdict = NoVerdict
    /\ validated = NotValidated
    /\ rawRows = JUndefined
    /\ returned = NotReturned
    /\ Idle

Next ==
    \/ CreateConnectionPool
    \/ \E i \in Slots :
        \/ \E req \in ExecRequests : Start(i, req.sql, req.params, req.database)
        \/ \E s \in Sessions : Grant(i, s)
        \/ Resume(i)
        \/ GetConnectionRejects(i)
        \/ \E ok \in BOOLEAN : UseDone(i, ok)
        \/ \E ok \in BOOLEAN, k \in DOMAIN DriverRows : QueryDone(i, ok, DriverRows[k])

Spec == Init /\ [][Next]_vars

\* endConnection() is called (lines 207-211): "if (pool) return pool.end()".
\* The pool object is ended: it hands out no session any more and rejects
\* the getConnection requests made of it, while the sessions checked out
\* answer the statements they were sent.  The module's variables pool and
\* connection are not assigned.  On an ended pool pool.end() rejects and
\* changes nothing, and without a pool the function does nothing.
EndConnection ==
    /\ pool = "live"
    /\ pool' = "ended"
    /\ UNCHANGED <<env, input, query, verdict, validated, rawRows, returned, setup,
                   connection, sess, poolQueue, inv, calls>>

NextEnd == Next \/ EndConnection

\* executeQuery and createConnectionPool as in Spec, and the shutdown between
\* them
SpecEnd == Init /\ [][NextEnd]_vars

\* isAlloowedQuery(query) is called under env
AdmitQuery ==
    /\ input.kind = "string"
    /\ ~verdict.done /\ ~validated.done
    /\ verdict' = [done |-> TRUE] @@ Analysis(query, env)
    /\ UNCHANGED <<env, input, query, validated, rawRows, returned, pool, setup,
                   connection, sess, poolQueue, inv, calls>>

InitAdmit ==
    /\ env \in AdmitEnvs
    /\ \E text \in Queries : input = JString(text) /\ query = text
    /\ verdict = NoVerdict
    /\ validated = NotValidated
    /\ rawRows = JUndefined
    /\ returned = NotReturned
    /\ Idle

NextAdmit == AdmitQuery

\* admission alone, on every query text under every flag setting
SpecAdmit == InitAdmit /\ [][NextAdmit]_vars

InitFlags ==
    /\ env \in FlagEnvs
    /\ \E text \in FlagQueries : input = JString(text) /\ query = text
    /\ verdict = NoVerdict
    /\ validated = NotValidated
    /\ rawRows = JUndefined
    /\ returned = NotReturned
    /\ Idle

NextFlags == AdmitQuery

\* admission of the write commands under every value of the write flags
SpecFlags == InitFlags /\ [][NextFlags]_vars

\* validateQuery(input) is called under env; isAlloowedQuery(query) runs in
\* it unless the first test has thrown
ValidateQuery ==
    /\ ~verdict.done /\ ~validated.done
    /\ validated' = [done |-> TRUE] @@ validateQuery(input, env)
    /\ verdict' = IF Falsy(input) \/ input.kind # "string" THEN verdict
                  ELSE [done |-> TRUE] @@ Analysis(query, env)
    /\ UNCHANGED <<env, input, query, rawRows, returned, pool, setup, connection, sess,
                   poolQueue, inv, calls>>

\* a string, and the text of it, or a value that is no string
InitValidate ==
    /\ env \in AdmitEnvs
    /\ \/ \E text \in ValidateTexts : input = JString(text) /\ query = text
       \/ \E k \in DOMAIN NonStrings : input = NonStrings[k] /\ query = <<>>
    /\ verdict = NoVerdict
    /\ validated = NotValidated
    /\ rawRows = JUndefined
    /\ returned = NotReturned
    /\ Idle

NextValidate == ValidateQuery \/ AdmitQuery

\* validateQuery and isAlloowedQuery, on strings and on values that are none
SpecValidate == InitValidate /\ [][NextValidate]_vars

\* lines 133-149 of executeQuery run on the driver's rows
ReturnRows ==
    /\ ~returned.done
    /\ returned' = [done |-> TRUE, rows |-> SerializedRows(rawRows)]
    /\ UNCHANGED <<env, input, query, verdict, validated, rawRows, pool, setup, connection, sess,
                   poolQueue, inv, calls>>

InitRows ==
    /\ env \in RowEnvs
    /\ input = JUndefined
    /\ query = <<>>
    /\ verdict = NoVerdict
    /\ validated = NotValidated
    /\ \/ \E len \in RowCounts : rawRows = RowList(len)
       \/ rawRows = OkPacket
       \/ \E k \in DOMAIN NestedValues : rawRows = NestedValues[k]
    /\ returned = NotReturned
    /\ Idle

NextRows == ReturnRows

\* the row limit and the conversion alone, on every row list
SpecRows == InitRows /\ [][NextRows]_vars

(***************************************************************************)
(* Admission: what is checked of isAlloowedQuery (SpecAdmit).              *)
(***************************************************************************)
\* a character of a word: a letter, a digit or the underscore
IsWordChar(ch) ==
    \/ ch \in DOMAIN UpperOf
    \/ ch \in {UpperOf[lc] : lc \in DOMAIN UpperOf}
    \/ IsDigit(ch)
    \/ ch = "_"

\* word stands in text as a word of its own: no word character before it
\* and none after it
HasWord(text, word) ==
    \E idx \in 1..(Len(text) - Len(word) + 1) :
        /\ SubSeq(text, idx, idx + Len(word) - 1) = word
        /\ (idx = 1 \/ ~IsWordChar(text[idx - 1]))
        /\ (idx + Len(word) - 1 = Len(text) \/ ~IsWordChar(text[idx + Len(word)]))

\* the first whitespace-delimited token of text
RECURSIVE LeadingToken(_)
LeadingToken(text) ==
    IF text = <<>> \/ IsSpace(Head(text)) THEN <<>>
    ELSE <<Head(text)>> \o LeadingToken(Tail(text))

\* how many times ch stands in text
RECURSIVE CountChar(_, _)
CountChar(text, ch) ==
    IF text = <<>> THEN 0
    ELSE (IF Head(text) = ch THEN 1 ELSE 0) + CountChar(Tail(text), ch)

ReadCommands == {SELECT, SHOW, DESCRIBE, DESC, EXPLAIN}
WriteCommands == {INSERT, UPDATE, DELETE}

\* the write flag of a write command, as getConfigFromEnv reads it
WriteFlag(cmd, e) ==
    IF cmd = INSERT THEN getConfigFromEnv(e).allow_insert
    ELSE IF cmd = UPDATE THEN getConfigFromEnv(e).allow_update
    ELSE getConfigFromEnv(e).allow_delete

\* C1 (as claimed): a query whose normalized text holds a disallowed command
\* as a word of its own, anywhere, is denied, whatever its leading token and
\* whatever the three write flags are.
C1_DisallowedWordDenied ==
    (/\ verdict.done
     /\ \E idx \in DOMAIN DISALLOWED_COMMANDS :
            HasWord(verdict.normalizedQuery, DISALLOWED_COMMANDS[idx]))
    => ~verdict.result

\* C2 (as claimed): a query whose normalized text holds a ";" is denied,
\* unless the ";" stands exactly once and as the very last character.
C2_MultiStatementDenied ==
    (/\ verdict.done
     /\ includes(verdict.normalizedQuery, <<";">>)
     /\ ~(/\ CountChar(verdict.normalizedQuery, ";") = 1
          /\ endsWith(verdict.normalizedQuery, <<";">>)))
    => ~verdict.result

\* C3: a query whose leading command is INSERT, UPDATE or DELETE, with no
\* disallowed command and no multi-statement violation found, is allowed if
\* and only if the write flag of that same command is enabled; with the three
\* flags off no query led by a write command is admitted.
C3_WriteIffFlag ==
    (verdict.done /\ LeadingToken(verdict.normalizedQuery) \in WriteCommands)
    => /\ (~verdict.containsDisallowed /\ ~verdict.hasMultipleStatements)
            => (verdict.result <=> WriteFlag(LeadingToken(verdict.normalizedQuery), env))
       /\ (\A cmd \in WriteCommands : ~WriteFlag(cmd, env)) => ~verdict.result

\* C3's case: INSERT INTO t VALUES (1) has been allowed under ALLOW_INSERT,
\* the other two flags off
C3_Witness ==
    /\ verdict.done
    /\ query = INSERT \o <<" ", "I", "N", "T", "O", " ", "t", " ", "V", "A", "L", "U",
                           "E", "S", " ", "(", "1", ")">>
    /\ WriteFlag(INSERT, env) /\ ~WriteFlag(UPDATE, env) /\ ~WriteFlag(DELETE, env)
    /\ verdict.result

\* C4: a query whose normalized leading token is SELECT, SHOW, DESCRIBE, DESC
\* or EXPLAIN, with no disallowed command and no multi-statement violation
\* found, is allowed under each of the eight settings of the write flags.
C4_ReadAllowed ==
    (/\ verdict.done
     /\ LeadingToken(verdict.normalizedQuery) \in ReadCommands
     /\ ~verdict.containsDisallowed
     /\ ~verdict.hasMultipleStatements)
    => verdict.result

\* C4's case: a bare DESCRIBE behind a comment has been allowed with the
\* three write flags off
C4_Witness ==
    /\ verdict.done
    /\ query = DESCRIBE \o <<"/", "*">> \o DROP \o <<"*", "/">>
    /\ \A cmd \in WriteCommands : ~WriteFlag(cmd, env)
    /\ verdict.result

(***************************************************************************)
(* Execution: what is checked of executeQuery (Spec).                      *)
(***************************************************************************)
\* invocation i awaits the driver's answer to a statement
InFlight(i) == inv[i].pc \in {"use", "query"}

\* invocation i has been called and has not returned or thrown yet
Running(i) == inv[i].pc \in {"getConnection", "granted", "use", "query"}

\* C5 (as claimed): no session is in use by two in-flight invocations at
\* once: a statement an invocation awaits was sent on a session the pool
\* granted to that invocation and has not taken back, and on no session
\* another invocation awaits a statement on.
C5_SessionNotShared ==
    \A i \in Slots :
        InFlight(i) =>
            /\ sess[inv[i].stmtOn].state = "out"
            /\ sess[inv[i].stmtOn].holder = i
            /\ \A j \in Slots \ {i} : InFlight(j) => inv[j].stmtOn # inv[i].stmtOn

\* C6 (as claimed): every session an invocation acquired is back in the pool
\* when it returns: whenever no invocation is running, no session is checked
\* out.
C6_AllReleasedAtRest ==
    (\A i \in Slots : ~Running(i)) => \A s \in Sessions : sess[s].state = "idle"

\* C7 (as claimed): a session on which an execution ended in error is never
\* in the pool for reuse, and no later acquisition yields it.
C7_FailedSessionNotReused ==
    /\ \A s \in Sessions : sess[s].errored => sess[s].state # "idle"
    /\ \A i \in Slots : ~inv[i].gotFailed

\* C8 (as claimed): for a query admission denies, executeQuery asks the pool
\* for no session and sends no statement to the database, not even USE.
C8_DeniedBeforeConnection ==
    \A i \in Slots :
        (inv[i].pc # "idle" /\ ~isAlloowedQuery(inv[i].sql, env)) =>
            /\ inv[i].pc \notin {"getConnection", "granted", "use", "query"}
            /\ inv[i].got = null
            /\ inv[i].sent = <<>>

\* C9 (as claimed): a query of a call without a database argument runs
\* against the configured default database, whatever calls came before.
C9_DefaultDatabaseWhenNoneGiven ==
    \A i \in Slots :
        (inv[i].pc = "returned" /\ ~Truthy(inv[i].database)) =>
            inv[i].ranOn = env.MARIADB_DATABASE

(***************************************************************************)
(* The row limit: what is checked of lines 133-149 (SpecRows).             *)
(***************************************************************************)
\* the row cap the environment configures: MARIADB_ROW_LIMIT, 1000 when unset
ConfiguredRowLimit(e) ==
    IF Truthy(e.MARIADB_ROW_LIMIT) /\ ~parseInt(e.MARIADB_ROW_LIMIT.value).isNaN
    THEN parseInt(e.MARIADB_ROW_LIMIT.value).n
    ELSE DEFAULT_ROW_LIMIT

Min(a, b) == IF a <= b THEN a ELSE b

\* C10 (as claimed): of a list of n raw rows under a configured cap c, the
\* first min(n, c) rows are returned, in order, and no more.
C10_ConfiguredRowCap ==
    (returned.done /\ rawRows.kind = "array") =>
        LET kept == Min(Len(rawRows.items), ConfiguredRowLimit(env))
        IN  returned.rows = convertBigIntToString(JArray(SubSeq(rawRows.items, 1, kept)))

(***************************************************************************)
(* Admission under two configurations, and the compatibility scan          *)
(* (SpecAdmit).                                                            *)
(***************************************************************************)
\* environment e with the write flag of write command cmd set to value
WithWriteFlag(e, cmd, value) ==
    IF cmd = INSERT THEN [e EXCEPT !.MARIADB_ALLOW_INSERT = value]
    ELSE IF cmd = UPDATE THEN [e EXCEPT !.MARIADB_ALLOW_UPDATE = value]
    ELSE [e EXCEPT !.MARIADB_ALLOW_DELETE = value]

\* the decision on a query is the same under any two configurations that
\* differ in the write flag of a command that is not its leading command
UnrelatedFlagIrrelevant ==
    verdict.done =>
        \A cmd \in WriteCommands, value \in FlagValues :
            LeadingToken(verdict.normalizedQuery) # cmd
                => isAlloowedQuery(query, WithWriteFlag(env, cmd, value)) = verdict.result

\* a denied query that holds a disallowed command stays denied when a write
\* flag is enabled
DisallowedStaysDenied ==
    (/\ verdict.done
     /\ ~verdict.result
     /\ \E idx \in DOMAIN DISALLOWED_COMMANDS :
            HasWord(verdict.normalizedQuery, DISALLOWED_COMMANDS[idx]))
    => \A cmd \in WriteCommands :
           ~isAlloowedQuery(query, WithWriteFlag(env, cmd, Str(TrueText)))

\* C11 (as claimed): the admission decision on a query does not depend on the
\* write flag of a command other than its leading command, and enabling a
\* write flag never turns a denied query that holds DROP (or another
\* disallowed command) into an allowed one.
C11_DenialMonotonic == UnrelatedFlagIrrelevant /\ DisallowedStaysDenied

\* ROW_NUMBER() OVER (ORDER BY id)
WindowClause ==
    ROW_NUMBER \o <<"(", ")", " ">> \o OVER
        \o <<" ", "(", "O", "R", "D", "E", "R", " ", "B", "Y", " ", "i", "d", ")">>

\* the three admission conditions of a text under e, each computed alone
Permitted(text, e) ==
    /\ StartsWithAllowed(NormalizeQuery(text), e)
    /\ ~ContainsDisallowed(NormalizeQuery(text))
    /\ ~HasMultipleStatements(NormalizeQuery(text))

\* C12: the decision of isAlloowedQuery is (leading command permitted) and
\* (no disallowed command) and (not multi-statement), whether the text
\* matches an unsupported-feature pattern or not; an otherwise permitted
\* query that holds ROW_NUMBER() OVER (ORDER BY id) is allowed and a
\* compatibility warning is produced for it.
C12_ScanNeverDecides ==
    verdict.done =>
        /\ verdict.result = Permitted(query, env)
        /\ (includes(query, WindowClause) /\ Permitted(query, env))
               => (verdict.result /\ verdict.compatibilityWarning.found)

\* C12's case: SELECT ROW_NUMBER() OVER (ORDER BY id) FROM t has been allowed,
\* with a warning
C12_Witness ==
    /\ verdict.done
    /\ query = WindowQuery
    /\ verdict.compatibilityWarning.found
    /\ verdict.result

\* the table entries whose pattern matches the text handed to the scan
MatchedFeatures(text) ==
    {idx \in DOMAIN MARIADB_10_0_UNSUPPORTED_FEATURES :
        RegExpTest(MARIADB_10_0_UNSUPPORTED_FEATURES[idx].pattern, toUpperCase(text))}

\* the warnings one isAlloowedQuery call produces (lines 141-144), each by
\* the table entry it names
WarningsOf(v) ==
    IF v.compatibilityWarning.found THEN {v.compatibilityWarning.feature} ELSE {}

\* C18 (as claimed): for a text that matches k patterns of the feature table,
\* k warnings are produced, one naming each matched pattern.
C18_EveryMatchWarned ==
    verdict.done =>
        WarningsOf(verdict) =
            {MARIADB_10_0_UNSUPPORTED_FEATURES[idx].source : idx \in MatchedFeatures(query)}

(***************************************************************************)
(* The conversion: what is checked of convertBigIntToString (SpecRows).    *)
(***************************************************************************)
\* text is the decimal writing of the integer n: a "-" for a negative n, then
\* the digits of its magnitude, none of them a leading zero
IsDecimalOf(text, n) ==
    LET digits == IF n < 0 /\ text # <<>> THEN Tail(text) ELSE text
    IN  /\ text # <<>>
        /\ n < 0 => Head(text) = "-"
        /\ digits # <<>>
        /\ \A k \in DOMAIN digits : IsDigit(digits[k])
        /\ Len(digits) > 1 => digits[1] # "0"
        /\ DigitsPrefixValue(digits, 0) = (IF n < 0 THEN 0 - n ELSE n)

\* b is a with every wide integer, at any depth, replaced by its decimal
\* digit string, and nothing else changed: the other values equal, the arrays
\* of the same length and order, the objects of the same keys in the same
\* order
RECURSIVE Normalized(_, _)
Normalized(a, b) ==
    IF a.kind = "bigint" THEN b.kind = "string" /\ IsDecimalOf(b.val, a.val)
    ELSE IF a.kind = "array"
         THEN /\ b.kind = "array"
              /\ Len(b.items) = Len(a.items)
              /\ \A k \in DOMAIN a.items : Normalized(a.items[k], b.items[k])
    ELSE IF a.kind = "object"
         THEN /\ b.kind = "object"
              /\ Len(b.entries) = Len(a.entries)
              /\ \A k \in DOMAIN a.entries :
                    /\ b.entries[k].key = a.entries[k].key
                    /\ Normalized(a.entries[k].value, b.entries[k].value)
    ELSE b = a

\* C13: convertBigIntToString replaces every wide integer, at any depth of
\* arrays and objects, by its exact decimal digit string, and leaves null,
\* boolean, numeric and text values, the keys of every object and the order
\* and length of every array as they are (checked on what executeQuery
\* returns for results the row limit does not cut).
C13_WideIntegersBecomeDigits ==
    (returned.done /\ ~(rawRows.kind = "array" /\ Len(rawRows.items) > DEFAULT_ROW_LIMIT))
        => Normalized(rawRows, returned.rows)

\* C13's case: an object that holds wide integers at depth one and two has
\* been converted, the inner -1 to the text "-1"
C13_Witness ==
    /\ returned.done
    /\ rawRows = NestedValues[10]
    /\ returned.rows.entries[1].value = JString(<<"1", "2", "3", "4", "5", "6", "7", "8", "9", "0">>)
    /\ returned.rows.entries[2].value.entries[1].value = JString(<<"-", "1">>)
    /\ returned.rows.entries[4].value = JNull

(***************************************************************************)
(* Configuration and the pool: what is checked of getConfigFromEnv,        *)
(* createConnectionPool and executeQuery (Spec).                           *)
(***************************************************************************)
ConfigurationErrors ==
    {"MARIADB_HOST environment variable is required",
     "MARIADB_USER environment variable is required",
     "MARIADB_PASSWORD environment variable is required"}

\* host, user or password is absent from environment e, or empty
CredentialMissing(e) ==
    \E name \in {"MARIADB_HOST", "MARIADB_USER", "MARIADB_PASSWORD"} :
        ~e[name].defined \/ e[name].value = <<>>

\* C14: with host, user or password absent or empty, getConfigFromEnv fails
\* with a configuration error, no pool is ever created and executeQuery sends
\* no statement (every call throws the configuration error); with the three
\* present the configuration is returned, its port 3306 when the port is
\* unset, each write flag false when its variable is unset.
C14_CredentialsMandatory ==
    /\ CredentialMissing(env) =>
          /\ getConfigFromEnv(env).threw
          /\ getConfigFromEnv(env).error \in ConfigurationErrors
          /\ pool = "null" /\ setup.created = 0
          /\ setup.last \in {"none", "threw"}
          /\ \A s \in Sessions : sess[s].state = "idle" /\ sess[s].pending = <<>>
          /\ \A i \in Slots :
                /\ inv[i].sent = <<>>
                /\ inv[i].pc \in {"idle", "threw"}
                /\ inv[i].pc = "threw" => inv[i].error \in ConfigurationErrors
    /\ ~CredentialMissing(env) =>
          /\ ~getConfigFromEnv(env).threw
          /\ getConfigFromEnv(env).host = env.MARIADB_HOST.value
          /\ getConfigFromEnv(env).user = env.MARIADB_USER.value
          /\ getConfigFromEnv(env).password = env.MARIADB_PASSWORD.value
          /\ ~env.MARIADB_PORT.defined => getConfigFromEnv(env).port = Num(3306)
          /\ ~env.MARIADB_ALLOW_INSERT.defined => ~getConfigFromEnv(env).allow_insert
          /\ ~env.MARIADB_ALLOW_UPDATE.defined => ~getConfigFromEnv(env).allow_update
          /\ ~env.MARIADB_ALLOW_DELETE.defined => ~getConfigFromEnv(env).allow_delete
          /\ setup.last # "threw"
          /\ \A i \in Slots : inv[i].error \notin ConfigurationErrors

\* C14's case: without a password createConnectionPool has thrown and an
\* executeQuery call has thrown the configuration error
C14_Witness ==
    /\ ~env.MARIADB_PASSWORD.defined
    /\ setup.last = "threw"
    /\ \E i \in Slots :
          /\ inv[i].pc = "threw"
          /\ inv[i].error = "MARIADB_PASSWORD environment variable is required"
    /\ pool = "null"

\* C16 (as claimed): the statement executeQuery hands to the driver carries
\* the caller's bind parameters as its bind values, all of them and in the
\* caller's order (and none for an empty parameter list).
C16_ParamsReachDriver ==
    \A i \in Slots :
        \A k \in DOMAIN inv[i].sent :
            inv[i].sent[k].sql = inv[i].sql => inv[i].sent[k].values = inv[i].params

\* C17: no pool exists before the first call of createConnectionPool or
\* executeQuery, mariadb.createPool runs at most once over all the calls, and
\* a call that finds the pool returns or uses that pool.
C17_PoolCreatedOnce ==
    /\ setup.created <= 1
    /\ (pool = "null") <=> (setup.created = 0)
    /\ calls = 0 => pool = "null"
    /\ setup.last \in {"created", "existing"} => pool = "live"
    /\ \A i \in Slots : inv[i].pc \in {"getConnection", "granted", "use", "query", "returned"}
                            => pool = "live"

\* C17's case: the pool was created once, a later createConnectionPool call
\* has returned it and an executeQuery call has run on it to its return
C17_Witness ==
    /\ setup.created = 1
    /\ setup.last = "existing"
    /\ \E i \in Slots : inv[i].pc = "returned"

\* C20 (as claimed): an invocation of an admitted query fails only because
\* the pool refused a session or the driver reported an error (or, before
\* any of it, for the configuration), never because the connection it was
\* about to use had been cleared by another invocation; and a statement an
\* invocation awaits is on a session that is checked out.
C20_NoUseOfClearedSession ==
    \A i \in Slots :
        /\ (inv[i].pc = "threw" /\ isAlloowedQuery(inv[i].sql, env))
               => inv[i].error \in {"pool timeout", "driver error"} \cup ConfigurationErrors
        /\ InFlight(i) => sess[inv[i].stmtOn].state = "out"

(***************************************************************************)
(* Rejections: what is checked of validateQuery (SpecValidate).            *)
(***************************************************************************)
\* the admission conditions that failed in one isAlloowedQuery call
FailedConditions(v) ==
    (IF ~v.startsWithAllowed THEN {"unapproved leading command"} ELSE {})
        \cup (IF v.containsDisallowed THEN {"disallowed keyword"} ELSE {})
        \cup (IF v.hasMultipleStatements THEN {"multiple statements"} ELSE {})

\* C15 (as claimed): the failure reported for a denied query names the
\* admission condition that failed: two denied queries that failed different
\* conditions are not reported with the same error.
C15_DenialNamesCondition ==
    (validated.done /\ validated.threw /\ verdict.done) =>
        \A text \in Examples :
            (/\ validateQuery(JString(text), env).threw
             /\ validateQuery(JString(text), env).error = validated.error)
                => FailedConditions(Analysis(text, env)) = FailedConditions(verdict)

\* C19: validateQuery fails for an empty string and for a value that is no
\* string, before isAlloowedQuery is called; and a text that is empty once its
\* comments and whitespace are stripped is denied by isAlloowedQuery and
\* rejected by validateQuery, under every setting of the write flags.
C19_EmptyQueryRejected ==
    /\ (validated.done /\ (input.kind # "string" \/ input.val = <<>>))
          => /\ validated.threw
             /\ validated.error = "Query must be a non-empty string"
             /\ ~verdict.done
    /\ (validated.done /\ input.kind = "string" /\ NormalizeQuery(input.val) = <<>>)
          => validated.threw
    /\ (verdict.done /\ NormalizeQuery(query) = <<>>) => ~verdict.result

\* C19's case: validateQuery has rejected a text of comments and whitespace
\* only, which isAlloowedQuery had denied
C19_Witness ==
    /\ validated.done /\ validated.threw
    /\ verdict.done /\ ~verdict.result
    /\ query = <<"-", "-", " ", "x", "\n", "/", "*", " ", "y", " ", "*", "/", " ">>
    /\ verdict.normalizedQuery = <<>>

(***************************************************************************)
(* Shutdown: what is checked of endConnection (SpecEnd).                   *)
(***************************************************************************)
\* invocation i calls pool.getConnection() in this step (line 112)
Acquires(i) == inv[i].pc # "getConnection" /\ inv'[i].pc = "getConnection"

\* C21: every pool.getConnection() call of executeQuery is made on a live
\* pool: after endConnection has ended the pool, an executeQuery that needs a
\* session gets it from a pool created anew.
C21_AcquiresFromLivePool ==
    [][\A i \in Slots : Acquires(i) => pool' = "live"]_vars

(***************************************************************************)
(* Write flags: what is checked of their reading (SpecFlags).              *)
(***************************************************************************)
\* the environment variable of a write command's flag
FlagVariable(cmd, e) ==
    IF cmd = INSERT THEN e.MARIADB_ALLOW_INSERT
    ELSE IF cmd = UPDATE THEN e.MARIADB_ALLOW_UPDATE
    ELSE e.MARIADB_ALLOW_DELETE

\* isAlloowedQuery has put the command among its allowed commands
UsedFlag(cmd, e) ==
    \E k \in DOMAIN AllowedCommands(e) : AllowedCommands(e)[k] = cmd

\* C22: a write flag is on exactly when its environment variable is the
\* text "true": isAlloowedQuery admits the write command, and allows a
\* statement of it that fails no other test, exactly then; and where
\* getConfigFromEnv returns a configuration, its allow_insert, allow_update
\* and allow_delete are the flags isAlloowedQuery used.
C22_FlagIsExactlyTrue ==
    verdict.done =>
        \A cmd \in WriteCommands :
            /\ UsedFlag(cmd, env) <=> FlagVariable(cmd, env) = Str(<<"t", "r", "u", "e">>)
            /\ ~getConfigFromEnv(env).threw => (WriteFlag(cmd, env) <=> UsedFlag(cmd, env))
            /\ (/\ LeadingToken(verdict.normalizedQuery) = cmd
                /\ ~verdict.containsDisallowed
                /\ ~verdict.hasMultipleStatements)
                  => (verdict.result <=> FlagVariable(cmd, env) = Str(<<"t", "r", "u", "e">>))

\* C22's case: an INSERT has been denied with MARIADB_ALLOW_INSERT = "TRUE",
\* MARIADB_ALLOW_UPDATE = "true" and MARIADB_ALLOW_DELETE = "1", and
\* getConfigFromEnv returns allow_update alone for that environment
C22_Witness ==
    /\ verdict.done /\ ~verdict.result
    /\ LeadingToken(verdict.normalizedQuery) = INSERT
    /\ env.MARIADB_ALLOW_INSERT = Str(<<"T", "R", "U", "E">>)
    /\ env.MARIADB_ALLOW_UPDATE = Str(<<"t", "r", "u", "e">>)
    /\ env.MARIADB_ALLOW_DELETE = Str(<<"1">>)
    /\ ~getConfigFromEnv(env).threw
    /\ ~getConfigFromEnv(env).allow_insert
    /\ getConfigFromEnv(env).allow_update
    /\ ~getConfigFromEnv(env).allow_delete
    /\ UsedFlag(UPDATE, env) /\ ~UsedFlag(INSERT, env) /\ ~UsedFlag(DELETE, env)

(***************************************************************************)
(* Conversion: what is checked of convertBigIntToString's output (SpecRows)*)
(***************************************************************************)
\* value x holds no BigInt, at any depth
RECURSIVE NoBigInt(_)
NoBigInt(x) ==
    IF x.kind = "bigint" THEN FALSE
    ELSE IF x.kind = "array" THEN \A k \in DOMAIN x.items : NoBigInt(x.items[k])
    ELSE IF x.kind = "object" THEN \A k \in DOMAIN x.entries : NoBigInt(x.entries[k].value)
    ELSE TRUE

\* C23: what convertBigIntToString returns holds no BigInt at any depth, and
\* converting it once more returns it unchanged: the conversion of the
\* conversion of a value is the conversion of that value.
C23_ConversionIdempotent ==
    /\ returned.done
          => /\ NoBigInt(returned.rows)
             /\ convertBigIntToString(returned.rows) = returned.rows
    /\ /\ NoBigInt(convertBigIntToString(rawRows))
       /\ convertBigIntToString(convertBigIntToString(rawRows)) = convertBigIntToString(rawRows)

\* C23's case: arrays nested three deep, a wide integer at each depth, have
\* been converted: the innermost -77 is the text "-77", and the conversion
\* has changed the value
C23_Witness ==
    /\ returned.done
    /\ rawRows = NestedValues[9]
    /\ ~NoBigInt(rawRows)
    /\ returned.rows # rawRows
    /\ returned.rows.items[1] = JString(<<"9">>)
    /\ returned.rows.items[3].items[3].items[1] = JString(<<"-", "7", "7">>)

====
